---- MODULE Spec2Model ----
(***************************************************************************)
(* A model of the coaddition tasks of pipe_tasks:                          *)
(*   - MakeCoaddTempExpTask.run   (makeCoaddTempExp.py)                    *)
(*   - CoaddTask.run              (coadd.py)                               *)
(*   - ProcessCoaddTask.setIsPrimaryFlag (processCoadd.py)                 *)
(* Each task is one state machine; the variable `task` says which of them  *)
(* a behaviour runs.  External collaborators (butler, PSF matcher, warper, *)
(* zero-point scaler, measurement) answer nondeterministically.            *)
(***************************************************************************)
EXTENDS Integers, Sequences, FiniteSets, Bags, TLC

\* ------------------------------------------------------------------ bounds
\* longest list of selected exposures (imageRefList / idList)
MaxExp == 3
\* largest source table handed to setIsPrimaryFlag
MaxSrc == 2

\* ------------------------------------------------------------------ values
\* An optional float is a sequence: <<>> is None, <<v>> is the value v.
None == <<>>
Some(v) == <<v>>
\* desiredFwhm / desFwhm values the configuration may hold (arc seconds)
FwhmValues == {None, Some(-2), Some(0), Some(2), Some(4)}
\* wcs.pixelScale().asArcseconds(): arc seconds per pixel, positive
PixelScales == {1, 2}
\* PSF kernel dimensions found on calibrated exposures (width, height)
KernelDims == {<<3, 3>>, <<5, 5>>}

VARIABLES
    task,          \* which task this behaviour runs
    pc,            \* "init", "loop", "returned" or "raised"
    error,         \* the exception that left the task, "none" if none
    desiredFwhm,   \* config.desiredFwhm (MakeCoaddTempExp) / desFwhm (Coadd)
    pixelScale,    \* pixel scale of the patch WCS
    doWrite,       \* config.doWrite
    numExp,        \* len(imageRefList) / len(idList)
    ind,           \* loop iterations finished
    log,           \* per exposure visited: what was done with it
    dataRefList,   \* MakeCoaddTempExpTask.run's result list (exposure indices)
    puts,          \* datasets persisted, in order
    prevKernelDim, \* CoaddTask.run local
    modelPsf,      \* CoaddTask.run local: None or the model PSF
    coadd,         \* CoaddTask.run local: the coaddUtils.Coadd accumulator
    sources,       \* the source table given to setIsPrimaryFlag
    doDeblend,     \* config.doDeblend
    hasNChild,     \* schema holds the deblend_nChild field
    skyInfo        \* getSkyInfo(patchRef): None, or the tract and patch processed

pipeVars == <<desiredFwhm, pixelScale, doWrite, numExp, ind, log, dataRefList,
              puts, prevKernelDim, modelPsf, coadd>>
srcVars == <<sources, doDeblend, hasNChild, skyInfo>>
vars == <<task, pc, error, pipeVars, srcVars>>

\* ------------------------------------------------------------ configuration
Tasks == {"makeCoaddTempExp", "coadd", "processCoadd"}

\* a variant of Gt0 that lets a zero width through
Ge0(f) == f # None /\ f[1] >= 0

\* `desFwhm > 0` / `desFwhm <= 0` (Python 2 orders None below every number)
Gt0(f) == f # None /\ f[1] > 0

\* --------------------------------------------------------------- exposures
\* destination pixels of the coadd bounding box
Pixels == {"p0", "p1"}
\* mask planes whose pixels the accumulator leaves out (the configured list)
maskPlanesToExclude == {"BAD", "SAT"}

Pix(v, var, fin, m) == [value |-> v, variance |-> var, finite |-> fin, mask |-> m]
\* warped exposures the warper may return: value, variance and mask planes
Images ==
    { [p \in Pixels |-> IF p = "p0" THEN a ELSE b] :
        <<a, b>> \in {
          <<Pix(1, 1, TRUE, {}),           Pix(2, 2, TRUE, {})>>,
          <<Pix(3, 2, TRUE, {}),           Pix(5, 1, TRUE, {"BAD"})>>,
          <<Pix(7, 1, TRUE, {"NO_DATA"}),  Pix(1, 1, TRUE, {})>>,
          <<Pix(4, 0, TRUE, {}),           Pix(6, 1, FALSE, {})>>,
          <<Pix(2, 1, TRUE, {"DETECTED"}), Pix(9, 2, TRUE, {"NO_DATA"})>> } }
NoImage == [p \in Pixels |-> Pix(0, 0, FALSE, {"NO_DATA"})]

\* What the external collaborators answer for one exposure of the list:
\* whether the butler holds its calexp and psf, the size of its PSF kernel,
\* whether the PSF matcher, the warper and the zero-point scaler succeed on
\* it, and the warped pixels.
ExposureInputs ==
    [calexpExists : BOOLEAN, psfExists : BOOLEAN, kernelDim : KernelDims,
     matchOK : BOOLEAN, warpOK : BOOLEAN, scaleOK : BOOLEAN, warped : Images]

\* ------------------------------------------------------- PSF model builder
\* createPsf("DoubleGaussian", w, h, coreSigma, 2.5 coreSigma, 0.1) rejects a
\* non-positive width or kernel size (InvalidParameter)
ModelBuilderAccepts(fwhmPixels, kernelDim) ==
    fwhmPixels > 0 /\ kernelDim[1] > 0 /\ kernelDim[2] > 0

\* the model PSF: a double Gaussian of the given core FWHM and kernel size
makeModelPsf(fwhmPixels, kernelDim) == [fwhm |-> fwhmPixels, dim |-> kernelDim]

\* ------------------------------------------------ MakeCoaddTempExpTask
\* a variant of preprocessExposure that warps first and PSF-matches the
\* warped exposure
preprocessExposureWarpFirst(fwhm, scale, in) ==
    LET doMatch == fwhm # None
        fwhmPixels == IF doMatch THEN fwhm[1] \div scale ELSE 0
        buildOK == ModelBuilderAccepts(fwhmPixels, in.kernelDim)
        model == IF doMatch /\ buildOK
                 THEN Some(makeModelPsf(fwhmPixels, in.kernelDim)) ELSE None
        kdim == IF doMatch THEN Some(in.kernelDim) ELSE None
        s2 == IF doMatch THEN <<"warp", "match">> ELSE <<"warp">>
        Res(ok, st, why, matched) ==
            [ok |-> ok, stages |-> st, why |-> why, kernelDim |-> kdim,
             built |-> model, matchedWith |-> IF matched THEN model ELSE None]
    IN  IF ~in.warpOK THEN Res(FALSE, <<"warp">>, "NoOverlap", FALSE)
        ELSE IF doMatch /\ ~buildOK THEN Res(FALSE, s2, "InvalidParameter", FALSE)
        ELSE IF doMatch /\ ~in.matchOK THEN Res(FALSE, s2, "PsfMatchFailure", TRUE)
        ELSE IF ~in.scaleOK
             THEN Res(FALSE, s2 \o <<"scale">>, "CalibrationMissing", doMatch)
        ELSE Res(TRUE, s2 \o <<"scale">>, "none", doMatch)

\* preprocessExposure: PSF-match (if desiredFwhm is not None), warp, scale.
\* ok = FALSE stands for the exception the failing stage raises.
preprocessExposure(fwhm, scale, in) ==
    LET doMatch == fwhm # None
        fwhmPixels == IF doMatch THEN fwhm[1] \div scale ELSE 0
        buildOK == ModelBuilderAccepts(fwhmPixels, in.kernelDim)
        model == IF doMatch /\ buildOK
                 THEN Some(makeModelPsf(fwhmPixels, in.kernelDim)) ELSE None
        kdim == IF doMatch THEN Some(in.kernelDim) ELSE None
        s1 == IF doMatch THEN <<"match">> ELSE <<>>
        Res(ok, st, why, matched) ==
            [ok |-> ok, stages |-> st, why |-> why, kernelDim |-> kdim,
             built |-> model, matchedWith |-> IF matched THEN model ELSE None]
    IN  IF doMatch /\ ~buildOK THEN Res(FALSE, s1, "InvalidParameter", FALSE)
        ELSE IF doMatch /\ ~in.matchOK THEN Res(FALSE, s1, "PsfMatchFailure", TRUE)
        ELSE IF ~in.warpOK THEN Res(FALSE, s1 \o <<"warp">>, "NoOverlap", doMatch)
        ELSE IF ~in.scaleOK
             THEN Res(FALSE, s1 \o <<"warp", "scale">>, "CalibrationMissing", doMatch)
        ELSE Res(TRUE, s1 \o <<"warp", "scale">>, "none", doMatch)

\* one entry of `log`
Entry(result, r) ==
    [result |-> result, why |-> r.why, stages |-> r.stages,
     kernelDim |-> r.kernelDim, built |-> r.built,
     matchedWith |-> r.matchedWith, image |-> NoImage]
NotLoaded(why) ==
    [ok |-> FALSE, stages |-> <<>>, why |-> why, kernelDim |-> None,
     built |-> None, matchedWith |-> None]

\* getCalExp: get("calexp"), and get("psf") when getPsf; FALSE stands for the
\* exception the butler raises for a dataset it does not hold
getCalExp(in, getPsf) == in.calexpExists /\ (getPsf => in.psfExists)

\* a variant of NoExposures that lets the empty list through
NoExposuresBelowZero(n) == n < 0

\* run, line 122: `if numExp < 1: raise`
NoExposures(n) == n < 1

\* a variant of caught that lets the zero-point scaler's exception through
caughtAllButCalibration(why) == why # "CalibrationMissing"

\* a variant of caught with a handler for the warper's exception alone
caughtNoOverlapOnly(why) == why = "NoOverlap"

\* run, lines 139-144: `except Exception` catches whatever preprocessExposure
\* raises
caught(why) == TRUE

\* run, lines 111-128: select the exposures; an empty selection is an error
TempExpRunStart ==
    /\ task = "makeCoaddTempExp" /\ pc = "init"
    /\ \E n \in 0..MaxExp :
         /\ numExp' = n
         /\ IF NoExposures(n)
            THEN pc' = "raised" /\ error' = "TaskError: No exposures to coadd"
            ELSE pc' = "loop" /\ error' = error
    /\ UNCHANGED <<task, desiredFwhm, pixelScale, doWrite, ind, log, dataRefList,
                   puts, prevKernelDim, modelPsf, coadd, srcVars>>

\* run, lines 131-165: one pass of the loop over imageRefList
TempExpRunExposure ==
    /\ task = "makeCoaddTempExp" /\ pc = "loop" /\ ind < numExp
    /\ \E in \in ExposureInputs :
         LET doPsfMatch == desiredFwhm # None
             r == preprocessExposure(desiredFwhm, pixelScale, in)
             tempExpRef == ind + 1
         IN  IF ~in.calexpExists
             THEN \* lines 132-134: warn and continue
                  /\ log' = Append(log, Entry("skipped", NotLoaded("NoCalexp")))
                  /\ ind' = ind + 1
                  /\ UNCHANGED <<pc, error, dataRefList, puts>>
             ELSE IF ~getCalExp(in, doPsfMatch)
             THEN \* line 138: getCalExp's dataRef.get("psf") raises, outside the try
                  /\ log' = Append(log, Entry("raised", NotLoaded("NoPsf")))
                  /\ pc' = "raised" /\ error' = "LoadFailure: psf"
                  /\ UNCHANGED <<ind, dataRefList, puts>>
             ELSE IF ~r.ok /\ caught(r.why)
             THEN \* lines 139-144: except Exception: warn and continue
                  /\ log' = Append(log, Entry("skipped", r))
                  /\ ind' = ind + 1
                  /\ UNCHANGED <<pc, error, dataRefList, puts>>
             ELSE IF ~r.ok
             THEN /\ log' = Append(log, Entry("raised", r))
                  /\ pc' = "raised" /\ error' = r.why
                  /\ UNCHANGED <<ind, dataRefList, puts>>
             ELSE IF doWrite /\ desiredFwhm # None
             THEN \* lines 153-158: the tempExp is put, then `coaddExposure`
                  \* is an unbound name
                  /\ puts' = Append(puts, [type |-> "tempExp", id |-> tempExpRef])
                  /\ log' = Append(log, Entry("raised", r))
                  /\ pc' = "raised" /\ error' = "NameError: coaddExposure"
                  /\ UNCHANGED <<ind, dataRefList>>
             ELSE /\ puts' = IF doWrite
                             THEN Append(puts, [type |-> "tempExp", id |-> tempExpRef])
                             ELSE puts
                  /\ log' = Append(log, Entry("emitted", r))
                  /\ dataRefList' = Append(dataRefList, tempExpRef)
                  /\ ind' = ind + 1
                  /\ UNCHANGED <<pc, error>>
    /\ UNCHANGED <<task, desiredFwhm, pixelScale, doWrite, numExp, prevKernelDim,
                   modelPsf, coadd, srcVars>>

\* run, lines 167-169: the loop is over, return dataRefList
TempExpRunReturn ==
    /\ task = "makeCoaddTempExp" /\ pc = "loop" /\ ind = numExp
    /\ pc' = "returned"
    /\ UNCHANGED <<task, error, pipeVars, srcVars>>

\* ------------------------------------------------------ coaddUtils.Coadd
\* Weights are kept as multiples of 1/WeightScale, so that 1/variance is a
\* whole number for every variance of Images.
WeightScale == 2
Weight(px) == WeightScale \div px.variance

\* a variant of Contributes that does not look at the mask planes
ContributesWhateverMask(px) == px.finite /\ px.variance > 0

\* a pixel of an incoming exposure takes part in the sums
Contributes(px) ==
    /\ "NO_DATA" \notin px.mask
    /\ px.mask \cap maskPlanesToExclude = {}
    /\ px.finite /\ px.variance > 0

\* Coadd.fromPolicy: empty running sums over the coadd bounding box
EmptyCoadd == [p \in Pixels |-> [sumVW |-> 0, sumW |-> 0]]

\* Coadd.addExposure: add value * weight and weight, pixel by pixel
addExposure(c, image) ==
    [p \in Pixels |->
        IF Contributes(image[p])
        THEN [sumVW |-> c[p].sumVW + image[p].value * Weight(image[p]),
              sumW  |-> c[p].sumW + Weight(image[p])]
        ELSE c[p]]

\* Coadd.getExposure: value = sumVW / sumW and variance = 1 / sumW as the
\* fractions <<numerator, denominator>>; a pixel of zero weight is no-data
getExposure(c) ==
    [p \in Pixels |->
        IF c[p].sumW = 0
        THEN [nodata |-> TRUE, value |-> None, weight |-> 0, variance |-> None]
        ELSE [nodata |-> FALSE, value |-> <<c[p].sumVW, c[p].sumW>>,
              weight |-> c[p].sumW, variance |-> <<WeightScale, c[p].sumW>>]]

\* --------------------------------------------------------------- CoaddTask
\* run is written without a `self` parameter and reads self.log, pexLog and
\* policy, names the module does not bind.  The model follows the statements
\* of its body as they read with those names bound; the logging calls have no
\* effect on the state.
\* run, lines 68-76: an empty idList is an error; else make the accumulator
CoaddRunStart ==
    /\ task = "coadd" /\ pc = "init"
    /\ \E n \in 0..MaxExp :
         /\ numExp' = n
         /\ IF NoExposures(n)
            THEN pc' = "raised" /\ error' = "RuntimeError: No exposures to coadd!"
            ELSE pc' = "loop" /\ error' = error
    /\ coadd' = EmptyCoadd
    /\ prevKernelDim' = <<0, 0>>
    /\ UNCHANGED <<task, desiredFwhm, pixelScale, doWrite, ind, log, dataRefList,
                   puts, modelPsf, srcVars>>

\* a variant of coaddAfter with the accumulator made anew inside the loop
coaddAfterFromEmpty(c, image) == addExposure(EmptyCoadd, image)

\* run, line 99: the warped exposure goes into the accumulator of line 76
coaddAfter(c, image) == addExposure(c, image)

\* a variant of coaddPsfMatch that makes the model PSF for the first exposure
\* and uses it for every later one
coaddPsfMatchFirstModel(desFwhm, kernelDim, prevDim, prevModel) ==
    IF Gt0(desFwhm)
    THEN LET rebuild == prevDim = <<0, 0>>
             model == IF rebuild THEN Some(makeModelPsf(desFwhm[1], kernelDim))
                      ELSE prevModel
         IN  [stages |-> <<"match">>, kernelDim |-> Some(kernelDim),
              built |-> IF rebuild THEN model ELSE None,
              matchedWith |-> model, modelPsf |-> model,
              prevKernelDim |-> IF rebuild THEN kernelDim ELSE prevDim]
    ELSE [stages |-> <<>>, kernelDim |-> None, built |-> None,
          matchedWith |-> None, modelPsf |-> prevModel, prevKernelDim |-> prevDim]

\* run, lines 83-96: the PSF-match branch for one exposure.  The model PSF is
\* made again when the kernel size differs from the previous exposure's.
coaddPsfMatch(desFwhm, kernelDim, prevDim, prevModel) ==
    IF Gt0(desFwhm)
    THEN LET rebuild == kernelDim # prevDim
             model == IF rebuild THEN Some(makeModelPsf(desFwhm[1], kernelDim))
                      ELSE prevModel
         IN  [stages |-> <<"match">>, kernelDim |-> Some(kernelDim),
              built |-> IF rebuild THEN model ELSE None,
              matchedWith |-> model, modelPsf |-> model,
              prevKernelDim |-> IF rebuild THEN kernelDim ELSE prevDim]
    ELSE [stages |-> <<>>, kernelDim |-> None, built |-> None,
          matchedWith |-> None, modelPsf |-> prevModel, prevKernelDim |-> prevDim]

\* run, lines 78-99: one pass of the loop over idList; nothing is caught
CoaddRunExposure ==
    /\ task = "coadd" /\ pc = "loop" /\ ind < numExp
    /\ \E in \in ExposureInputs :
         LET m == coaddPsfMatch(desiredFwhm, in.kernelDim, prevKernelDim, modelPsf)
             E(result, why, st, img) ==
                 [result |-> result, why |-> why, stages |-> st,
                  kernelDim |-> m.kernelDim, built |-> m.built,
                  matchedWith |-> m.matchedWith, image |-> img]
             Raise(why, st) ==
                 /\ log' = Append(log, E("raised", why, st, NoImage))
                 /\ pc' = "raised" /\ error' = why
                 /\ UNCHANGED <<ind, coadd>>
         IN  IF ~getCalExp(in, TRUE)
             THEN \* lines 80-81: butler.get raises
                  /\ log' = Append(log, Entry("raised", NotLoaded("LoadFailure")))
                  /\ pc' = "raised" /\ error' = "LoadFailure"
                  /\ UNCHANGED <<ind, coadd, prevKernelDim, modelPsf>>
             ELSE /\ prevKernelDim' = m.prevKernelDim
                  /\ modelPsf' = m.modelPsf
                  /\ IF Gt0(desiredFwhm) /\ ~in.matchOK
                     THEN Raise("PsfMatchFailure", m.stages)
                     ELSE IF ~in.warpOK
                     THEN Raise("NoOverlap", m.stages \o <<"warp">>)
                     ELSE /\ coadd' = coaddAfter(coadd, in.warped)
                          /\ log' = Append(log, E("emitted", "none",
                                              m.stages \o <<"warp">>, in.warped))
                          /\ ind' = ind + 1
                          /\ UNCHANGED <<pc, error>>
    /\ UNCHANGED <<task, desiredFwhm, pixelScale, doWrite, numExp, dataRefList,
                   puts, srcVars>>

\* run, lines 101-103: return the accumulator
CoaddRunReturn ==
    /\ task = "coadd" /\ pc = "loop" /\ ind = numExp
    /\ pc' = "returned"
    /\ UNCHANGED <<task, error, pipeVars, srcVars>>

\* -------------------------------------------------------- ProcessCoaddTask
\* tracts of the sky map, and the patches of a tract with their inner
\* bounding boxes (Box2I: integer pixels, both ends included)
Tracts == {1, 2}
Patches == {"0,0", "1,0"}
getInnerBBox(patch) ==
    IF patch = "0,0" THEN [minX |-> 0, maxX |-> 1, minY |-> 0, maxY |-> 1]
                     ELSE [minX |-> 2, maxX |-> 3, minY |-> 0, maxY |-> 1]
SkyInfos == [tractId : Tracts, patch : Patches]

\* Positions are counted in half pixels, so that a pixel edge is a whole number.
\* afwGeom.Box2D(Box2I): from half a pixel below the first pixel's centre to
\* half a pixel above the last one's
Box2D(b) == [minX |-> 2 * b.minX - 1, maxX |-> 2 * b.maxX + 1,
             minY |-> 2 * b.minY - 1, maxY |-> 2 * b.maxY + 1]
\* Box2D.contains(point): the lower edges belong to the box, the upper do not
contains(box, pt) ==
    /\ box.minX <= pt[1] /\ pt[1] < box.maxX
    /\ box.minY <= pt[2] /\ pt[2] < box.maxY

\* centroids a measurement may report (half pixels): the lower corner of patch
\* "0,0", its upper x edge (the lower x edge of "1,0"), its upper y edge, and
\* the upper x edge of "1,0"
Centroids == {<<-1, -1>>, <<3, 1>>, <<1, 3>>, <<7, 1>>}
\* deblend_nChild values: a leaf or a parent
NChildValues == {0, 1}
\* no tract: the sky position of an unknown centroid is not read
NoTract == 0

\* what the measurement reports for a source; an unknown centroid has no
\* position to read
Measurements ==
    [centroidFlag : {FALSE}, centroid : Centroids, coordTract : Tracts]
    \cup {[centroidFlag |-> TRUE, centroid |-> None, coordTract |-> NoTract]}

\* a source as detection, deblending and measurement leave it: the three
\* detect_is* flags are new fields of the schema, and so unset
NewSource(m, n) ==
    [centroidFlag |-> m.centroidFlag, centroid |-> m.centroid,
     coordTract |-> m.coordTract, nChild |-> n,
     isPatchInner |-> FALSE, isTractInner |-> FALSE, isPrimary |-> FALSE]

\* setIsPrimaryFlag, line 166: deblending was run but nChild is not in the schema
SchemaInconsistent(deblend, nChildKey) == deblend /\ ~nChildKey

\* a variant of innerFloatBBox that takes the patch's outer box, the inner box
\* grown by a border of one pixel
innerFloatBBoxOfOuter(tile) ==
    LET b == getInnerBBox(tile.patch)
    IN  Box2D([minX |-> b.minX - 1, maxX |-> b.maxX + 1,
               minY |-> b.minY - 1, maxY |-> b.maxY + 1])

\* setIsPrimaryFlag, line 173: the patch's inner box as a floating-point box
innerFloatBBox(tile) == Box2D(getInnerBBox(tile.patch))

\* a variant of setFlags that sets is-primary without looking at nChild
setFlagsIgnoringChildren(source, tile, nChildKey) ==
    IF source.centroidFlag
    THEN source
    ELSE LET isPatchInner == contains(innerFloatBBox(tile), source.centroid)
             isTractInner == source.coordTract = tile.tractId
         IN  [source EXCEPT
                !.isPatchInner = isPatchInner,
                !.isTractInner = isTractInner,
                !.isPrimary = isPatchInner /\ isTractInner]

\* a variant of setFlags that sets is-primary without looking at the tract
setFlagsIgnoringTract(source, tile, nChildKey) ==
    IF source.centroidFlag
    THEN source
    ELSE LET isPatchInner == contains(innerFloatBBox(tile), source.centroid)
             isTractInner == source.coordTract = tile.tractId
         IN  [source EXCEPT
                !.isPatchInner = isPatchInner,
                !.isTractInner = isTractInner,
                !.isPrimary = IF ~nChildKey \/ source.nChild = 0
                              THEN isPatchInner ELSE @]

\* setIsPrimaryFlag, lines 176-190: the body of the loop, for one source
setFlags(source, tile, nChildKey) ==
    IF source.centroidFlag
    THEN source
    ELSE LET isPatchInner == contains(innerFloatBBox(tile), source.centroid)
             isTractInner == source.coordTract = tile.tractId
         IN  [source EXCEPT
                !.isPatchInner = isPatchInner,
                !.isTractInner = isTractInner,
                !.isPrimary = IF ~nChildKey \/ source.nChild = 0
                              THEN isPatchInner /\ isTractInner ELSE @]

\* a variant of setIsPrimaryFlag that tests the schema after the loop
setIsPrimaryFlagLateCheck(table, tile, deblend, nChildKey) ==
    [raised |-> SchemaInconsistent(deblend, nChildKey),
     sources |-> [i \in DOMAIN table |-> setFlags(table[i], tile, nChildKey)]]

\* setIsPrimaryFlag, lines 161-190: the table after the call; raised = TRUE
\* stands for the RuntimeError
setIsPrimaryFlag(table, tile, deblend, nChildKey) ==
    IF SchemaInconsistent(deblend, nChildKey)
    THEN [raised |-> TRUE, sources |-> table]
    ELSE [raised |-> FALSE,
          sources |-> [i \in DOMAIN table |-> setFlags(table[i], tile, nChildKey)]]

\* run, lines 135-136: setIsPrimaryFlag on the sources of the patch
ProcessCoaddSetIsPrimaryFlag ==
    /\ task = "processCoadd" /\ pc = "init"
    /\ LET r == setIsPrimaryFlag(sources, skyInfo[1], doDeblend, hasNChild)
       IN  /\ sources' = r.sources
           /\ IF r.raised
              THEN pc' = "raised" /\ error' = "RuntimeError: deblend_nChild"
              ELSE pc' = "returned" /\ error' = error
    /\ UNCHANGED <<task, pipeVars, doDeblend, hasNChild, skyInfo>>

\* The table is measured again (run, line 132: process) and handed to
\* setIsPrimaryFlag once more.  The measurement writes the centroid fields of
\* a source; it writes none of the detect_is* flags, and nChild is the
\* deblender's.  ProcessCoaddTask.run itself calls setIsPrimaryFlag once, on a
\* new table; a second call on the same table is a caller's.
ProcessCoaddMeasure ==
    /\ task = "processCoadd" /\ pc = "returned"
    /\ \E i \in DOMAIN sources, m \in Measurements :
         sources' = [sources EXCEPT ![i] =
                        [@ EXCEPT !.centroidFlag = m.centroidFlag,
                                  !.centroid = m.centroid,
                                  !.coordTract = m.coordTract]]
    /\ pc' = "init"
    /\ UNCHANGED <<task, error, pipeVars, doDeblend, hasNChild, skyInfo>>

\* ---------------------------------------------------------- specifications
InitPipe(t) ==
    /\ task = t /\ pc = "init" /\ error = "none"
    /\ desiredFwhm \in FwhmValues
    /\ pixelScale \in (IF t = "makeCoaddTempExp" THEN PixelScales ELSE {1})
    /\ doWrite \in (IF t = "makeCoaddTempExp" THEN BOOLEAN ELSE {FALSE})
    /\ numExp = 0 /\ ind = 0 /\ log = <<>> /\ dataRefList = <<>> /\ puts = <<>>
    /\ prevKernelDim = <<0, 0>> /\ modelPsf = None /\ coadd = EmptyCoadd
    /\ sources = <<>> /\ doDeblend = FALSE /\ hasNChild = FALSE /\ skyInfo = None

InitProcessCoadd ==
    /\ task = "processCoadd" /\ pc = "init" /\ error = "none"
    /\ desiredFwhm = None /\ pixelScale = 1 /\ doWrite = FALSE
    /\ numExp = 0 /\ ind = 0 /\ log = <<>> /\ dataRefList = <<>> /\ puts = <<>>
    /\ prevKernelDim = <<0, 0>> /\ modelPsf = None /\ coadd = EmptyCoadd
    /\ doDeblend \in BOOLEAN /\ hasNChild \in BOOLEAN
    /\ \E n \in 1..MaxSrc :
         sources \in [1..n -> {NewSource(m, c) : m \in Measurements,
                               c \in (IF hasNChild THEN NChildValues ELSE {0})}]
    /\ skyInfo \in {Some(t) : t \in SkyInfos}

Init == InitPipe("makeCoaddTempExp") \/ InitPipe("coadd") \/ InitProcessCoadd

NextTempExp == TempExpRunStart \/ TempExpRunExposure \/ TempExpRunReturn
NextCoadd == CoaddRunStart \/ CoaddRunExposure \/ CoaddRunReturn
NextProcessCoadd == ProcessCoaddSetIsPrimaryFlag \/ ProcessCoaddMeasure
Next == NextTempExp \/ NextCoadd \/ NextProcessCoadd

Spec == Init /\ [][Next]_vars
SpecTempExp == InitPipe("makeCoaddTempExp") /\ [][NextTempExp]_vars
SpecCoadd == InitPipe("coadd") /\ [][NextCoadd]_vars
SpecPipe == (InitPipe("makeCoaddTempExp") \/ InitPipe("coadd"))
            /\ [][NextTempExp \/ NextCoadd]_vars
SpecProcessCoadd == InitProcessCoadd /\ [][NextProcessCoadd]_vars

\* ------------------------------------------------------------------ claims
Pipe == task \in {"makeCoaddTempExp", "coadd"}
Entries == DOMAIN log
\* every exposure of the list was visited, and each one was skipped
AllSkipped ==
    /\ numExp >= 1 /\ ind = numExp /\ Len(log) = numExp
    /\ \A i \in Entries : log[i].result = "skipped"
NoExposuresError ==
    error \in {"TaskError: No exposures to coadd", "RuntimeError: No exposures to coadd!"}

\* C1 (as stated): when every selected exposure is skipped in the loop, the
\* run raises and does not return normally with an empty result list.
C1_AllSkippedRaises == (Pipe /\ AllSkipped) => pc # "returned"

\* C1 (amended): the run raises "No exposures to coadd" exactly when the list
\* of selected exposures is empty, before the loop; when the list is not
\* empty and every exposure is skipped, MakeCoaddTempExpTask.run raises
\* nothing, persists nothing and its result list is empty.
C1_AllSkippedReturnsEmpty ==
    Pipe =>
      /\ (pc # "init" /\ numExp = 0) => (pc = "raised" /\ NoExposuresError)
      /\ NoExposuresError => (numExp = 0 /\ log = <<>>)
      /\ AllSkipped => /\ pc \in {"loop", "returned"} /\ error = "none"
                       /\ dataRefList = <<>> /\ puts = <<>>

C1_Witness ==
    /\ task = "makeCoaddTempExp" /\ pc = "returned" /\ AllSkipped
    /\ \E i, j \in Entries : log[i].why = "NoCalexp" /\ log[j].why = "NoOverlap"

\* failures of PSF matching, warping and zero-point rescaling
StageFailures == {"PsfMatchFailure", "NoOverlap", "CalibrationMissing"}

C3_LoadFailureSkips ==
    task = "makeCoaddTempExp" =>
      /\ \A i \in Entries :
           log[i].why \in {"NoCalexp", "NoPsf"} => log[i].result = "skipped"
      /\ error # "LoadFailure: psf"

\* an entry whose exposure was loaded, so that the PSF-match decision was taken
Loaded(e) == e.why \notin {"NoCalexp", "NoPsf", "LoadFailure"}
HasMatch(e) == \E k \in DOMAIN e.stages : e.stages[k] = "match"
FwhmPositive == desiredFwhm # None /\ desiredFwhm[1] > 0

\* C4 (as stated): the PSF-match stage runs for an exposure if and only if the
\* target FWHM is set and > 0; an absent, zero or negative one disables it.
C4_MatchIffPositiveFwhm ==
    Pipe => \A i \in Entries :
              Loaded(log[i]) => (HasMatch(log[i]) <=> FwhmPositive)

\* C4 (amended): CoaddTask.run enters the PSF-match stage if and only if
\* desFwhm > 0.  MakeCoaddTempExpTask enters it if and only if desiredFwhm is
\* not None: only None disables it, a zero or negative value does not.  With
\* the stage disabled no model PSF is built and the matcher is not invoked.
C4_MatchIffEnabled ==
    Pipe => \A i \in Entries :
      LET enabled == IF task = "coadd" THEN FwhmPositive ELSE desiredFwhm # None
      IN  Loaded(log[i]) =>
            /\ HasMatch(log[i]) <=> enabled
            /\ ~enabled => (log[i].built = None /\ log[i].matchedWith = None)
            /\ log[i].matchedWith # None => enabled

C4_Witness ==
    /\ task = "makeCoaddTempExp" /\ desiredFwhm = Some(0)
    /\ \E i \in Entries : Loaded(log[i]) /\ HasMatch(log[i])

\* the classifier has run over the table and returned
Classified == task = "processCoadd" /\ pc = "returned"
Rows == DOMAIN sources

\* C5 (as stated): after the classifier has run, any number of times and
\* whatever the centroid flags were at each run, every source whose centroid
\* is flagged unknown has is-patch-inner, is-tract-inner and is-primary false.
C5_UnknownCentroidFlagsFalse ==
    Classified => \A i \in Rows :
      sources[i].centroidFlag =>
        /\ ~sources[i].isPatchInner
        /\ ~sources[i].isTractInner
        /\ ~sources[i].isPrimary

\* C6: after classification every source with a known centroid has
\* isTractInner = (findTract(skyPos) = tract id) and, when it has no children
\* or the schema has no child count, isPrimary = isPatchInner /\ isTractInner;
\* a source with children is not primary.
C6_PrimaryIffLeafAndInner ==
    Classified => \A i \in Rows :
      LET s == sources[i]
      IN  ~s.centroidFlag =>
            /\ s.isTractInner = (s.coordTract = skyInfo[1].tractId)
            /\ IF ~hasNChild \/ s.nChild = 0
               THEN s.isPrimary = (s.isPatchInner /\ s.isTractInner)
               ELSE s.isPrimary = FALSE
            /\ (hasNChild /\ s.nChild > 0) => ~s.isPrimary
            /\ ~s.isTractInner => ~s.isPrimary

C6_Witness ==
    /\ Classified /\ hasNChild
    /\ \E i, j \in Rows :
         /\ ~sources[i].centroidFlag /\ sources[i].nChild = 0 /\ sources[i].isPrimary
         /\ ~sources[j].centroidFlag /\ sources[j].nChild > 0
         /\ sources[j].isPatchInner /\ sources[j].isTractInner

\* C7: when deblending is declared and the child-count field is absent the
\* classifier raises and leaves the table as it was; in every other case it
\* raises nothing.
C7_SchemaInconsistencyRaisesFirst ==
    [][(task = "processCoadd" /\ pc = "init" /\ pc' # "init") =>
         IF doDeblend /\ ~hasNChild
         THEN pc' = "raised" /\ sources' = sources
         ELSE pc' = "returned" /\ error' = "none"]_vars

C7_Witness ==
    /\ task = "processCoadd" /\ pc = "raised" /\ doDeblend /\ ~hasNChild
    /\ \E i \in Rows :
         /\ ~sources[i].centroidFlag
         /\ sources[i].coordTract = skyInfo[1].tractId
         /\ contains(innerFloatBBox(skyInfo[1]), sources[i].centroid)
         /\ ~sources[i].isPatchInner /\ ~sources[i].isPrimary

\* C8: is-patch-inner follows half-open containment in the patch's inner box:
\* a centroid on a lower edge of the box is inside, a centroid on the upper
\* edge in x or in y, or beyond it, is not.
C8_HalfOpenPatchInner ==
    Classified => \A i \in Rows :
      LET s == sources[i]
          b == getInnerBBox(skyInfo[1].patch)
          x == s.centroid[1]
          y == s.centroid[2]
          loX == 2 * b.minX - 1
          hiX == 2 * b.maxX + 1
          loY == 2 * b.minY - 1
          hiY == 2 * b.maxY + 1
      IN  ~s.centroidFlag =>
            /\ (x >= hiX \/ y >= hiY) => ~s.isPatchInner
            /\ (x < loX \/ y < loY) => ~s.isPatchInner
            /\ (loX <= x /\ x < hiX /\ loY <= y /\ y < hiY) => s.isPatchInner

C8_Witness ==
    /\ Classified /\ skyInfo[1].patch = "0,0"
    /\ \E i, j \in Rows :
         /\ ~sources[i].centroidFlag /\ sources[i].centroid = <<3, 1>>
         /\ ~sources[i].isPatchInner
         /\ ~sources[j].centroidFlag /\ sources[j].centroid = <<-1, -1>>
         /\ sources[j].isPatchInner

\* the sum of f over the set S
RECURSIVE SumFn(_, _)
SumFn(f, S) ==
    IF S = {} THEN 0
    ELSE LET x == CHOOSE y \in S : TRUE IN f[x] + SumFn(f, S \ {x})

Folding == task = "coadd" /\ pc \in {"loop", "returned"}
Emitted == {i \in Entries : log[i].result = "emitted"}
\* how many of the exposures added so far carry the pixels of img
TimesAdded(img) == Cardinality({i \in Emitted : log[i].image = img})
\* the running sums as a function of the multiset of exposures added
SumsOfMultiset ==
    [p \in Pixels |->
       [sumVW |-> SumFn([img \in Images |->
                           IF Contributes(img[p])
                           THEN TimesAdded(img) * img[p].value * Weight(img[p])
                           ELSE 0], Images),
        sumW  |-> SumFn([img \in Images |->
                           IF Contributes(img[p])
                           THEN TimesAdded(img) * Weight(img[p])
                           ELSE 0], Images)]]

\* C9: the finalized composite depends only on the multiset of the exposures
\* added, not on the order in which the loop added them: value, weight and
\* variance planes and the no-data pixels are those of the multiset.
C9_CompositeOfMultiset == Folding => getExposure(coadd) = getExposure(SumsOfMultiset)

C9_Witness ==
    /\ task = "coadd" /\ pc = "returned" /\ Len(log) >= 3
    /\ log[1].image # log[2].image /\ log[2].image # log[3].image
    /\ \A i \in 1..3 : log[i].image["p0"].mask \cap {"NO_DATA", "BAD"} = {}
    /\ ~getExposure(coadd)["p0"].nodata

\* a pixel that the accumulator has to take: covered, not under an excluded
\* mask plane, and of finite, positive variance
Usable(px) ==
    /\ "NO_DATA" \notin px.mask /\ "BAD" \notin px.mask /\ "SAT" \notin px.mask
    /\ px.finite /\ px.variance > 0

\* C10: a pixel that is unusable in every exposure added has zero weight and
\* is no-data in the composite; any other pixel has the value and the weight
\* of its usable contributions alone, and the divisor of its value and of its
\* variance is not zero.
C10_NoDataAndUnmaskedOnly ==
    Folding => \A p \in Pixels :
      LET K == {i \in Emitted : Usable(log[i].image[p])}
          w == [i \in K |-> WeightScale \div log[i].image[p].variance]
          vw == [i \in K |-> log[i].image[p].value * w[i]]
          c == getExposure(coadd)[p]
      IN  IF K = {}
          THEN c.nodata /\ c.weight = 0 /\ c.value = None /\ c.variance = None
          ELSE /\ ~c.nodata
               /\ c.weight = SumFn(w, K) /\ c.weight > 0
               /\ c.value = <<SumFn(vw, K), SumFn(w, K)>>
               /\ c.variance = <<WeightScale, SumFn(w, K)>>

C10_Witness ==
    /\ task = "coadd" /\ pc = "returned" /\ Len(log) >= 2
    /\ \E p, q \in Pixels :
         /\ \A i \in Emitted : ~Usable(log[i].image[p])
         /\ getExposure(coadd)[p].nodata
         /\ \E i, j \in Emitted : Usable(log[i].image[q]) /\ ~Usable(log[j].image[q])
         /\ ~getExposure(coadd)[q].nodata

\* the places of a stage in the list of the stages an exposure went through
Places(e, stage) == {k \in DOMAIN e.stages : e.stages[k] = stage}
StageRank(stage) == IF stage = "match" THEN 1 ELSE IF stage = "warp" THEN 2 ELSE 3
\* PSF matching is enabled for the run (see C4)
MatchEnabled == IF task = "coadd" THEN FwhmPositive ELSE desiredFwhm # None

\* C11: for every exposure that reaches Emit each of the stages PSF match,
\* warp and zero-point rescale ran at most once and in that order; the PSF
\* match ran when enabled and then as the first stage, on the exposure as it
\* was loaded, so that the warp never came before it.
C11_MatchThenWarpThenScale ==
    Pipe => \A i \in Entries :
      LET e == log[i]
      IN  e.result = "emitted" =>
            /\ \A st \in {"match", "warp", "scale"} : Cardinality(Places(e, st)) <= 1
            /\ \A k, l \in DOMAIN e.stages :
                 k < l => StageRank(e.stages[k]) < StageRank(e.stages[l])
            /\ Places(e, "warp") # {}
            /\ HasMatch(e) <=> MatchEnabled
            /\ HasMatch(e) => /\ e.stages[1] = "match"
                              /\ e.matchedWith # None
                              /\ e.matchedWith[1].dim = e.kernelDim[1]

C11_Witness ==
    /\ Pipe /\ pc = "returned"
    /\ \E i \in Entries :
         /\ log[i].result = "emitted" /\ HasMatch(log[i])
         /\ Places(log[i], "warp") # {}
         /\ \A k \in Places(log[i], "match"), l \in Places(log[i], "warp") : k < l

Rescaled(e) == Places(e, "scale") # {}

Constructions == {i \in Entries : log[i].built # None}
DimsEncountered == {log[i].kernelDim[1] : i \in {j \in Entries : log[j].kernelDim # None}}

\* C13 (as stated): over one run with PSF matching enabled the model PSF is
\* constructed exactly once per distinct kernel dimension encountered, also
\* when a dimension comes back after a different one.
C13_OncePerDistinctDim ==
    (Pipe /\ FwhmPositive) => Cardinality(Constructions) = Cardinality(DimsEncountered)

\* the core FWHM of the model PSF in pixels: desFwhm is given in pixels,
\* config.desiredFwhm in arc seconds
ConfiguredFwhmPixels ==
    IF task = "coadd" THEN desiredFwhm[1] ELSE desiredFwhm[1] \div pixelScale

PutsOf(type) == {k \in DOMAIN puts : puts[k].type = type}
\* the exposures preprocessExposure returned normally for
Preprocessed == {i \in Entries : log[i].why = "none"}

\* C15 (as stated): with desiredFwhm configured and doWrite set,
\* MakeCoaddTempExpTask.run persists a tempExp for each exposure preprocessed
\* with success, persists the initPsf as well, and returns normally with one
\* data reference per persisted tempExp, in input order.
C15_WritesInitPsfAndReturns ==
    (task = "makeCoaddTempExp" /\ doWrite /\ desiredFwhm # None) =>
      /\ pc # "raised" \/ error \in {"TaskError: No exposures to coadd", "LoadFailure: psf"}
      /\ (pc = "returned" /\ Preprocessed # {}) =>
           /\ PutsOf("initPsf") # {}
           /\ Len(dataRefList) = Cardinality(PutsOf("tempExp"))
           /\ \A k \in DOMAIN dataRefList :
                /\ dataRefList[k] \in Preprocessed
                /\ \A l \in DOMAIN dataRefList : k < l => dataRefList[k] < dataRefList[l]

\* the pixels of a patch's inner box, and the tiling's precondition: no pixel
\* lies in the inner box of two patches
InnerPixels(patch) ==
    LET b == getInnerBBox(patch)
    IN  (b.minX .. b.maxX) \X (b.minY .. b.maxY)
InnerBoxesDisjoint ==
    \A p, q \in Patches : p # q => InnerPixels(p) \cap InnerPixels(q) = {}
\* the classifier's is-primary for a detection without children that the
\* catalogue of `tile` holds at pixel position c, its sky position lying in
\* tract `tract`
PrimaryIn(tile, c, tract) ==
    setFlags(NewSource([centroidFlag |-> FALSE, centroid |-> c,
                        coordTract |-> tract], 0),
             tile, hasNChild).isPrimary

\* C16: with inner boxes that do not overlap and one tract per sky position,
\* a detection without children at a fixed position is primary in at most one
\* (tract, patch) tile: in the tile just classified if it is primary there,
\* in no tile of another tract wherever that tract's pixels put it, and in no
\* second patch of its own tract.
C16_PrimaryInOneTile ==
    (Classified /\ InnerBoxesDisjoint) => \A i \in Rows :
      LET s == sources[i]
          prim == {t \in SkyInfos : PrimaryIn(t, s.centroid, s.coordTract)}
      IN  (~s.centroidFlag /\ (~hasNChild \/ s.nChild = 0)) =>
            /\ Cardinality(prim) <= 1
            /\ s.isPrimary <=> skyInfo[1] \in prim
            /\ s.isPrimary => prim = {skyInfo[1]}
            /\ \A t \in SkyInfos, c \in Centroids :
                 t.tractId # s.coordTract => ~PrimaryIn(t, c, s.coordTract)

C16_Witness ==
    /\ Classified /\ InnerBoxesDisjoint /\ hasNChild
    /\ skyInfo[1] = [tractId |-> 1, patch |-> "1,0"]
    /\ \E i \in Rows :
         /\ ~sources[i].centroidFlag /\ sources[i].nChild = 0
         /\ sources[i].centroid = <<3, 1>> /\ sources[i].isPrimary
         /\ ~PrimaryIn([tractId |-> 1, patch |-> "0,0"], <<3, 1>>, 1)
         /\ ~PrimaryIn([tractId |-> 2, patch |-> "1,0"], <<3, 1>>, 1)

====
